---- MODULE Spec2Model ----
(***************************************************************************)
(* Model of the mixed graph store (graph/MixedMatrix.go) and of the arcs   *)
(* filter (DirectedGraphArcsFilter) of go-graph.                            *)
(*                                                                         *)
(* The store keeps the upper triangle of an adjacency matrix in the flat   *)
(* array `nodes`, addressed through getConnectionId; vertex ids are        *)
(* mapped to internal indices by the map VertexIds.                        *)
(***************************************************************************)
EXTENDS Integers, Sequences, FiniteSets, TLC

\* ------------------------------------------------------------------ bounds
\* Capacities tried for NewMixedMatrix(size): 1..MaxSize.
MaxSize == 3
\* Vertex ids handed to the operations: 1..MaxId (VertexId is an ordered integer type).
MaxId == 4
\* Cap on the connections: calls that would leave more than MaxConns occupied
\* slots in the array are not made.
MaxConns == 1
\* Capacities for which the slot formula is tabulated: 1..MaxCap.
MaxCap == 8
\* Node ids of the reader wrapped by the arcs filter: 1..MaxFilterId.
MaxFilterId == 2
\* Longest sequence of connections the wrapped reader yields.
MaxSrc == 2
\* Longest list of excluded arcs given to NewArcsFilter.
MaxExcl == 2

Sizes == 1..MaxSize
Ids == 1..MaxId

\* ------------------------------------------------- MixedConnectionType values
CT_NONE == "CT_NONE"
CT_UNDIRECTED == "CT_UNDIRECTED"
CT_DIRECTED == "CT_DIRECTED"
CT_DIRECTED_REVERSED == "CT_DIRECTED_REVERSED"

ConnTypes == {CT_NONE, CT_UNDIRECTED, CT_DIRECTED, CT_DIRECTED_REVERSED}

\* --------------------------------------------------------- outcomes of a call
\* A call either returns ("ok") or panics; the panic's message decides the kind.
OK == "ok"
ERR_EQUAL == "Equal nodes."
ERR_NO_NODE == "node doesn't exist in graph"
ERR_CAPACITY == "Not enough space"
ERR_DUPLICATE == "Duplicate edge."
ERR_NO_EDGE == "Edge doesn't exists."
ERR_NO_ARC == "Arc doesn't exists."
ERR_EXISTS == "Node already exists."
ERR_RANGE == "index out of range"

VARIABLES
    size,       \* MixedMatrix.size
    nodes,      \* MixedMatrix.nodes: [0..len-1 -> ConnTypes]
    VertexIds,  \* MixedMatrix.VertexIds: vertex id -> internal index
    edgesCnt,   \* MixedMatrix.edgesCnt
    arcsCnt,    \* MixedMatrix.arcsCnt
    last,       \* the call whose outcome the caller holds: [op, a, b, res];
                \* NoCall once the caller has dropped it
    pre,        \* the store as it was when that call started
    addPre      \* <<s>> when the call is a Remove that directly follows a
                \* successful Add of the same kind and arguments, s being the
                \* store before that Add; <<>> otherwise
    ,
    arcsAdded   \* the arcs <<tail, head>> that a successful AddArc(tail, head)
                \* added and no successful RemoveArc(tail, head) has removed
                \* since (an arc found missing is followed no further once the
                \* caller drops the outcome of the call that lost it)
    ,
    probe,      \* the last evaluation of the slot formula: [id1, id2, conn]
    src,        \* what the ConnectionsIter() of the reader wrapped by the
                \* filter yields, in order
    arcs,       \* DirectedGraphArcsFilter.arcs
    flt,        \* DirectedGraphArcsFilter.ConnectionsIter(): the goroutine,
                \* its channel and the consumer
    view,       \* a node of the reader wrapped by the filter, the successors
                \* and predecessors the reader stores for it, and the last
                \* GetAccessors / GetPredecessors call made on the filter
    it          \* an iteration of the store: the producer goroutine, what is
                \* left of its two loops, its channel and the consumer

store == <<size, nodes, VertexIds, edgesCnt, arcsCnt>>
caller == <<last, pre, addPre, arcsAdded>>
filter == <<src, arcs, flt>>
vars == <<size, nodes, VertexIds, edgesCnt, arcsCnt, last, pre, addPre, arcsAdded,
          probe, src, arcs, flt, view, it>>

\* The fields of the store as one record (the snapshot kept in `pre`).
Snapshot == [size |-> size, nodes |-> nodes, VertexIds |-> VertexIds,
             edgesCnt |-> edgesCnt, arcsCnt |-> arcsCnt]

\* len(gr.nodes) for a capacity: make([]MixedConnectionType, size*(size-1)/2)
NodesLen(sz) == (sz * (sz - 1)) \div 2

\* len(gr.VertexIds)
Order(V) == Cardinality(DOMAIN V)

\* ------------------------------------------------------------ getConnectionId
\* the formula with the triangular number of id1 - 1 instead of that of id1
SlotFormula_OffByOne(id1, id2, sz) ==
    id1 * (sz - 1) + id2 - 1 - (id1 * (id1 - 1)) \div 2

\* id from upper triangle matrix, stored in vector (ids already ordered id1 < id2)
SlotFormula(id1, id2, sz) == id1 * (sz - 1) + id2 - 1 - (id1 * (id1 + 1)) \div 2

\* the formula without the switch of id1 and id2
ConnId_NoSwap(id1, id2, sz) == SlotFormula(id1, id2, sz)

\* switching id1, id2 in order to id1 < id2, then the formula
ConnId(id1, id2, sz) ==
    IF id1 > id2 THEN SlotFormula(id2, id1, sz) ELSE SlotFormula(id1, id2, sz)

\* The "checking for errors" block: the panic raised, or OK.
GciErr(V, sz, node1, node2, create) ==
    LET node1Exist == node1 \in DOMAIN V
        node2Exist == node2 \in DOMAIN V
    IN  IF node1 = node2 THEN ERR_EQUAL
        ELSE IF ~create
             THEN IF ~node1Exist \/ ~node2Exist THEN ERR_NO_NODE ELSE OK
        ELSE IF ~node1Exist \/ ~node2Exist
             THEN IF node1Exist /\ node2Exist
                  THEN IF sz - Order(V) < 2 THEN ERR_CAPACITY ELSE OK
                  ELSE IF sz - Order(V) < 1 THEN ERR_CAPACITY ELSE OK
        ELSE OK

\* gr.VertexIds[node] = len(gr.VertexIds) for a node that is not mapped yet
MapNode(V, node) ==
    IF node \in DOMAIN V THEN V ELSE V @@ (node :> Order(V))

\* VertexIds after the two creation blocks (node1 first, then node2)
GciVertexIds(V, node1, node2) == MapNode(MapNode(V, node1), node2)

\* The whole routine: [err, V, conn]. On a panic nothing has been mapped yet.
getConnectionId(V, sz, node1, node2, create) ==
    LET err == GciErr(V, sz, node1, node2, create)
        V2 == GciVertexIds(V, node1, node2)
    IN  IF err # OK
        THEN [err |-> err, V |-> V, conn |-> 0]
        ELSE [err |-> OK, V |-> V2, conn |-> ConnId(V2[node1], V2[node2], sz)]

\* gr.nodes[conn] is inside the array
InRange(nd, conn) == conn \in DOMAIN nd

\* ----------------------------------------------------------------- queries
\* The queries read the store s = [size, nodes, VertexIds, edgesCnt, arcsCnt]
\* and answer [err, val]; val is meaningful when err = OK.
EdgesCnt(s) == s.edgesCnt
ArcsCnt(s) == s.arcsCnt
ConnectionsCnt(s) == s.arcsCnt + s.edgesCnt

CheckNode(s, node) == node \in DOMAIN s.VertexIds

CheckEdge(s, node1, node2) ==
    IF node1 = node2 THEN [err |-> OK, val |-> FALSE]
    ELSE LET r == getConnectionId(s.VertexIds, s.size, node1, node2, FALSE)
         IN  IF r.err # OK THEN [err |-> r.err, val |-> FALSE]
             ELSE IF ~InRange(s.nodes, r.conn) THEN [err |-> ERR_RANGE, val |-> FALSE]
             ELSE [err |-> OK, val |-> (s.nodes[r.conn] = CT_UNDIRECTED)]

\* the slot state an arc tail->head is stored as: decided by comparing the ids
ArcType(tail, head) == IF tail < head THEN CT_DIRECTED ELSE CT_DIRECTED_REVERSED

CheckArc(s, tail, head) ==
    LET checkingType == ArcType(tail, head)
        r == getConnectionId(s.VertexIds, s.size, tail, head, FALSE)
    IN  IF r.err # OK THEN [err |-> r.err, val |-> FALSE]
        ELSE IF ~InRange(s.nodes, r.conn) THEN [err |-> ERR_RANGE, val |-> FALSE]
        ELSE [err |-> OK, val |-> (s.nodes[r.conn] = checkingType)]

CheckEdgeType(s, tail, head) ==
    LET r == getConnectionId(s.VertexIds, s.size, tail, head, FALSE)
    IN  IF r.err # OK THEN [err |-> r.err, val |-> CT_NONE]
        ELSE IF ~InRange(s.nodes, r.conn) THEN [err |-> ERR_RANGE, val |-> CT_NONE]
        ELSE LET connType == s.nodes[r.conn]
             IN  IF connType = CT_DIRECTED /\ tail > head
                 THEN [err |-> OK, val |-> CT_DIRECTED_REVERSED]
                 ELSE [err |-> OK, val |-> connType]

\* ------------------------------------------------------------- the mutators
\* Each answers [res, st]: the outcome of the call and the store it leaves.
\* AddNode without the "Node already exists." check: the id is mapped again
AddNodeOn_Remap(s, node) ==
    IF Order(s.VertexIds) = s.size THEN [res |-> ERR_CAPACITY, st |-> s]
    ELSE [res |-> OK,
          st |-> [s EXCEPT !.VertexIds =
                      [n \in DOMAIN s.VertexIds \cup {node} |->
                          IF n = node THEN Order(s.VertexIds) ELSE s.VertexIds[n]]]]

AddNodeOn(s, node) ==
    IF node \in DOMAIN s.VertexIds THEN [res |-> ERR_EXISTS, st |-> s]
    ELSE IF Order(s.VertexIds) = s.size THEN [res |-> ERR_CAPACITY, st |-> s]
    ELSE [res |-> OK,
          st |-> [s EXCEPT !.VertexIds = s.VertexIds @@ (node :> Order(s.VertexIds))]]

\* AddEdge that sets the slot and forgets gr.edgesCnt++
AddEdgeOn_NoCount(s, node1, node2) ==
    LET r == getConnectionId(s.VertexIds, s.size, node1, node2, TRUE)
        s1 == [s EXCEPT !.VertexIds = r.V]
    IN  IF r.err # OK THEN [res |-> r.err, st |-> s]
        ELSE IF ~InRange(s.nodes, r.conn) THEN [res |-> ERR_RANGE, st |-> s1]
        ELSE IF s.nodes[r.conn] # CT_NONE THEN [res |-> ERR_DUPLICATE, st |-> s1]
        ELSE [res |-> OK, st |-> [s1 EXCEPT !.nodes[r.conn] = CT_UNDIRECTED]]

AddEdgeOn(s, node1, node2) ==
    LET r == getConnectionId(s.VertexIds, s.size, node1, node2, TRUE)
        s1 == [s EXCEPT !.VertexIds = r.V]
    IN  IF r.err # OK THEN [res |-> r.err, st |-> s]
        ELSE IF ~InRange(s.nodes, r.conn) THEN [res |-> ERR_RANGE, st |-> s1]
        ELSE IF s.nodes[r.conn] # CT_NONE THEN [res |-> ERR_DUPLICATE, st |-> s1]
        ELSE [res |-> OK,
              st |-> [s1 EXCEPT !.nodes[r.conn] = CT_UNDIRECTED,
                                !.edgesCnt = s.edgesCnt + 1]]

RemoveEdgeOn(s, node1, node2) ==
    LET r == getConnectionId(s.VertexIds, s.size, node1, node2, TRUE)
        s1 == [s EXCEPT !.VertexIds = r.V]
    IN  IF r.err # OK THEN [res |-> r.err, st |-> s]
        ELSE IF ~InRange(s.nodes, r.conn) THEN [res |-> ERR_RANGE, st |-> s1]
        ELSE IF s.nodes[r.conn] # CT_UNDIRECTED THEN [res |-> ERR_NO_EDGE, st |-> s1]
        ELSE [res |-> OK,
              st |-> [s1 EXCEPT !.nodes[r.conn] = CT_NONE,
                                !.edgesCnt = s.edgesCnt - 1]]

\* AddArc without the duplicate check: the slot is overwritten
AddArcOn_Overwrite(s, tail, head) ==
    LET r == getConnectionId(s.VertexIds, s.size, tail, head, TRUE)
        s1 == [s EXCEPT !.VertexIds = r.V]
    IN  IF r.err # OK THEN [res |-> r.err, st |-> s]
        ELSE IF ~InRange(s.nodes, r.conn) THEN [res |-> ERR_RANGE, st |-> s1]
        ELSE [res |-> OK,
              st |-> [s1 EXCEPT !.nodes[r.conn] = ArcType(tail, head),
                                !.arcsCnt = s.arcsCnt + 1]]

\* AddArc that decides the slot state by comparing the internal indices
AddArcOn_ByIndex(s, tail, head) ==
    LET r == getConnectionId(s.VertexIds, s.size, tail, head, TRUE)
        s1 == [s EXCEPT !.VertexIds = r.V]
    IN  IF r.err # OK THEN [res |-> r.err, st |-> s]
        ELSE IF ~InRange(s.nodes, r.conn) THEN [res |-> ERR_RANGE, st |-> s1]
        ELSE IF s.nodes[r.conn] # CT_NONE THEN [res |-> ERR_DUPLICATE, st |-> s1]
        ELSE [res |-> OK,
              st |-> [s1 EXCEPT !.nodes[r.conn] =
                                    IF r.V[tail] < r.V[head] THEN CT_DIRECTED
                                    ELSE CT_DIRECTED_REVERSED,
                                !.arcsCnt = s.arcsCnt + 1]]

AddArcOn(s, tail, head) ==
    LET r == getConnectionId(s.VertexIds, s.size, tail, head, TRUE)
        s1 == [s EXCEPT !.VertexIds = r.V]
    IN  IF r.err # OK THEN [res |-> r.err, st |-> s]
        ELSE IF ~InRange(s.nodes, r.conn) THEN [res |-> ERR_RANGE, st |-> s1]
        ELSE IF s.nodes[r.conn] # CT_NONE THEN [res |-> ERR_DUPLICATE, st |-> s1]
        ELSE [res |-> OK,
              st |-> [s1 EXCEPT !.nodes[r.conn] = ArcType(tail, head),
                                !.arcsCnt = s.arcsCnt + 1]]

\* RemoveArc that expects the slot state of the opposite arc
RemoveArcOn_Opposite(s, tail, head) ==
    LET r == getConnectionId(s.VertexIds, s.size, tail, head, TRUE)
        s1 == [s EXCEPT !.VertexIds = r.V]
        expectedType == ArcType(head, tail)
    IN  IF r.err # OK THEN [res |-> r.err, st |-> s]
        ELSE IF ~InRange(s.nodes, r.conn) THEN [res |-> ERR_RANGE, st |-> s1]
        ELSE IF s.nodes[r.conn] # expectedType THEN [res |-> ERR_NO_ARC, st |-> s1]
        ELSE [res |-> OK,
              st |-> [s1 EXCEPT !.nodes[r.conn] = CT_NONE,
                                !.arcsCnt = s.arcsCnt - 1]]

RemoveArcOn(s, tail, head) ==
    LET r == getConnectionId(s.VertexIds, s.size, tail, head, TRUE)
        s1 == [s EXCEPT !.VertexIds = r.V]
        expectedType == ArcType(tail, head)
    IN  IF r.err # OK THEN [res |-> r.err, st |-> s]
        ELSE IF ~InRange(s.nodes, r.conn) THEN [res |-> ERR_RANGE, st |-> s1]
        ELSE IF s.nodes[r.conn] # expectedType THEN [res |-> ERR_NO_ARC, st |-> s1]
        ELSE [res |-> OK,
              st |-> [s1 EXCEPT !.nodes[r.conn] = CT_NONE,
                                !.arcsCnt = s.arcsCnt - 1]]

\* ------------------------------------------------------------------ the store
\* NewMixedMatrix(size), size > 0
NewMixedMatrix(sz) ==
    [size |-> sz, nodes |-> [i \in 0..(NodesLen(sz) - 1) |-> CT_NONE],
     VertexIds |-> [n \in {} |-> 0], edgesCnt |-> 0, arcsCnt |-> 0]

\* The caller holds no outcome.
NoCall == [op |-> "none", a |-> 0, b |-> 0, res |-> OK]

\* The slot formula has not been evaluated.
NoProbe == [id1 |-> 0, id2 |-> 0, conn |-> 0]

\* No iteration of the filter has been started.
NoIter == [pc |-> "idle", sent |-> 0, conn |-> <<>>, k |-> 0,
           out |-> <<>>, ch |-> "none", cpc |-> "idle"]

\* No query has been made on the filter, whose reader stores nothing.
NoView == [node |-> 0, acc |-> <<>>, pred |-> <<>>, shared |-> FALSE,
           op |-> "none", got |-> <<>>, ret |-> <<>>]

\* No iteration of the store has been started.
NoIt == [kind |-> "none", pc |-> "idle", froms |-> {}, from |-> 0, tos |-> {},
         pend |-> <<>>, out |-> <<>>, cpc |-> "idle"]

\* A store fresh from NewMixedMatrix(sz), no call made yet.
NewStore(sz) ==
    /\ size = sz
    /\ nodes = NewMixedMatrix(sz).nodes
    /\ VertexIds = NewMixedMatrix(sz).VertexIds
    /\ edgesCnt = 0
    /\ arcsCnt = 0
    /\ last = NoCall
    /\ pre = NewMixedMatrix(sz)
    /\ addPre = <<>>
    /\ arcsAdded = {}
    /\ probe = NoProbe

Init ==
    /\ \E sz \in Sizes : NewStore(sz)
    /\ src = <<>>
    /\ arcs = <<>>
    /\ flt = NoIter
    /\ view = NoView
    /\ it = NoIt

\* the number of slots of the array nd that hold a connection
Occupied(nd) == Cardinality({i \in DOMAIN nd : nd[i] # CT_NONE})

\* The call op(a, b) ended as r = [res, st]: the store becomes r.st, and the
\* caller holds the outcome.
Call(op, a, b, r) ==
    /\ Occupied(r.st.nodes) <= MaxConns
    /\ size' = r.st.size
    /\ nodes' = r.st.nodes
    /\ VertexIds' = r.st.VertexIds
    /\ edgesCnt' = r.st.edgesCnt
    /\ arcsCnt' = r.st.arcsCnt
    /\ last' = [op |-> op, a |-> a, b |-> b, res |-> r.res]
    /\ pre' = Snapshot
    /\ UNCHANGED <<probe, filter, view, it>>

\* the call held is a successful `op` with the arguments a, b
JustDid(op, a, b) == last = [op |-> op, a |-> a, b |-> b, res |-> OK]

\* ------------------------------------------------------------------ the calls
AddNode(node) ==
    /\ Call("AddNode", node, 0, AddNodeOn(Snapshot, node))
    /\ addPre' = <<>>
    /\ UNCHANGED arcsAdded

AddEdge(node1, node2) ==
    /\ Call("AddEdge", node1, node2, AddEdgeOn(Snapshot, node1, node2))
    /\ addPre' = <<>>
    /\ UNCHANGED arcsAdded

RemoveEdge(node1, node2) ==
    /\ Call("RemoveEdge", node1, node2, RemoveEdgeOn(Snapshot, node1, node2))
    /\ addPre' = IF JustDid("AddEdge", node1, node2) THEN <<pre>> ELSE <<>>
    /\ UNCHANGED arcsAdded

AddArc(tail, head) ==
    /\ Call("AddArc", tail, head, AddArcOn(Snapshot, tail, head))
    /\ addPre' = <<>>
    /\ arcsAdded' = IF last'.res = OK THEN arcsAdded \cup {<<tail, head>>}
                    ELSE arcsAdded

RemoveArc(tail, head) ==
    /\ Call("RemoveArc", tail, head, RemoveArcOn(Snapshot, tail, head))
    /\ addPre' = IF JustDid("AddArc", tail, head) THEN <<pre>> ELSE <<>>
    /\ arcsAdded' = IF last'.res = OK THEN arcsAdded \ {<<tail, head>>}
                    ELSE arcsAdded

\* The caller drops the outcome it holds; the store is not touched.
Drop ==
    /\ last' = NoCall
    /\ pre' = Snapshot
    /\ addPre' = <<>>
    /\ arcsAdded' = {arc \in arcsAdded : CheckArc(Snapshot, arc[1], arc[2]).val}
    /\ UNCHANGED <<store, probe, filter, view, it>>

\* the caller holds no outcome
Idle == last = NoCall

\* the caller holds the outcome of a successful `op`
Succeeded(op) == last.op = op /\ last.res = OK

\* A caller that holds no outcome makes any call; a caller that holds one drops
\* it, or undoes at once the Add that has just succeeded.
Next ==
    \/ Idle /\ \E node \in Ids : AddNode(node)
    \/ Idle /\ \E node1, node2 \in Ids : AddEdge(node1, node2)
    \/ Idle /\ \E node1, node2 \in Ids : RemoveEdge(node1, node2)
    \/ Idle /\ \E tail, head \in Ids : AddArc(tail, head)
    \/ Idle /\ \E tail, head \in Ids : RemoveArc(tail, head)
    \/ ~Idle /\ Drop
    \/ Succeeded("AddEdge") /\ RemoveEdge(last.a, last.b)
    \/ Succeeded("AddArc") /\ RemoveArc(last.a, last.b)

Spec == Init /\ [][Next]_vars

\* ------------------------------------------------------- the slot formula
\* The formula of getConnectionId tabulated for the capacities 1..MaxCap: the
\* two internal indices are any two different indices below the capacity.
Caps == 1..MaxCap

InitSlot ==
    /\ \E sz \in Caps : NewStore(sz)
    /\ src = <<>>
    /\ arcs = <<>>
    /\ flt = NoIter
    /\ view = NoView
    /\ it = NoIt

Probe(id1, id2) ==
    /\ id1 # id2
    /\ probe' = [id1 |-> id1, id2 |-> id2, conn |-> ConnId(id1, id2, size)]
    /\ UNCHANGED <<store, caller, filter, view, it>>

NextSlot == \E id1, id2 \in 0..(size - 1) : Probe(id1, id2)

SpecSlot == InitSlot /\ [][NextSlot]_vars

\* ------------------------------------------------------------ the arcs filter
\* Connection{Tail, Head}
Connection(tail, head) == [Tail |-> tail, Head |-> head]

FilterIds == 1..MaxFilterId
Connections ==
    {Connection(p[1], p[2]) : p \in {q \in FilterIds \X FilterIds : q[1] # q[2]}}

\* the sequences over S of length at most n
SeqUpTo(S, n) == UNION {[1..m -> S] : m \in 0..n}

\* NewArcsFilter(g, arcs): g yields src from its ConnectionsIter()
InitFilter ==
    /\ NewStore(1)
    /\ src \in SeqUpTo(Connections, MaxSrc)
    /\ arcs \in SeqUpTo(Connections, MaxExcl)
    /\ flt = NoIter
    /\ view = NoView
    /\ it = NoIt

\* filter.ConnectionsIter(): ch := make(chan Connection); go func() {...}();
\* return ch. The consumer starts to receive from ch.
ConnectionsIterFilter ==
    /\ flt.pc = "idle"
    /\ flt' = [flt EXCEPT !.pc = "range", !.ch = "open", !.cpc = "recv"]
    /\ UNCHANGED <<store, caller, probe, src, arcs, view, it>>

\* for conn := range filter.DirectedGraphReader.ConnectionsIter(): the next
\* connection of the wrapped reader is received
FilterReceive ==
    /\ flt.pc = "range"
    /\ flt.sent < Len(src)
    /\ flt' = [flt EXCEPT !.pc = "inner", !.sent = flt.sent + 1,
                          !.conn = src[flt.sent + 1], !.k = 1]
    /\ UNCHANGED <<store, caller, probe, src, arcs, view, it>>

\* for _, filteringConnection := range filter.arcs { if ... { continue } }:
\* one pass of the inner loop; matching or not, it goes on with the next arc
FilterCompare ==
    /\ flt.pc = "inner"
    /\ flt.k <= Len(arcs)
    /\ flt' = [flt EXCEPT !.k = IF arcs[flt.k].Head = flt.conn.Head
                                    /\ arcs[flt.k].Tail = flt.conn.Tail
                                 THEN flt.k + 1
                                 ELSE flt.k + 1]
    /\ UNCHANGED <<store, caller, probe, src, arcs, view, it>>

\* the inner loop is over: back to the range over the wrapped reader
FilterNext ==
    /\ flt.pc = "inner"
    /\ flt.k > Len(arcs)
    /\ flt' = [flt EXCEPT !.pc = "range"]
    /\ UNCHANGED <<store, caller, probe, src, arcs, view, it>>

\* the wrapped reader has closed its channel: close(ch)
FilterClose ==
    /\ flt.pc = "range"
    /\ flt.sent = Len(src)
    /\ flt' = [flt EXCEPT !.pc = "done", !.ch = "closed"]
    /\ UNCHANGED <<store, caller, probe, src, arcs, view, it>>

\* the consumer's range over ch ends when ch is closed (the goroutine has no
\* send on ch for the consumer to receive)
ConsumerEnd ==
    /\ flt.cpc = "recv"
    /\ flt.ch = "closed"
    /\ flt' = [flt EXCEPT !.cpc = "done"]
    /\ UNCHANGED <<store, caller, probe, src, arcs, view, it>>

NextFilter ==
    \/ ConnectionsIterFilter
    \/ FilterReceive
    \/ FilterCompare
    \/ FilterNext
    \/ FilterClose
    \/ ConsumerEnd

SpecFilter == InitFilter /\ [][NextFilter]_vars

\* ------------------------------------------ the filter's successor queries
\* Longest sequence of successors the wrapped reader stores for a node.
MaxAcc == 2
\* Longest sequence of predecessors the wrapped reader stores for a node.
MaxPred == 1

\* the removal step without newAccessorsLen--
FilterRemove_KeepLen(a, n, x) ==
    LET hits == {i \in 1..n : a[i] = x}
    IN  IF hits = {} THEN [a |-> a, n |-> n]
        ELSE LET k == CHOOSE i \in hits : \A j \in hits : i <= j
             IN  [a |-> [i \in 1..Len(a) |-> IF i >= k /\ i <= n - 1 THEN a[i + 1]
                                                ELSE a[i]],
                  n |-> n]

\* The body of `if node == filteringConnection.Tail { ... }`: the slice a
\* (whole backing array, 1-based here) of which the first n elements are
\* live; the first x among them is removed by copy(a[k:n-1], a[k+1:n]) and n
\* decremented. Answers [a, n].
FilterRemove(a, n, x) ==
    LET hits == {i \in 1..n : a[i] = x}
    IN  IF hits = {} THEN [a |-> a, n |-> n]
        ELSE LET k == CHOOSE i \in hits : \A j \in hits : i <= j
             IN  [a |-> [i \in 1..Len(a) |-> IF i >= k /\ i <= n - 1 THEN a[i + 1]
                                                ELSE a[i]],
                  n |-> n - 1]

\* for _, filteringConnection := range filter.arcs of GetAccessors, from the
\* arc ex[i] on
RECURSIVE AccessorsLoop(_, _, _, _, _)
AccessorsLoop(a, n, ex, i, node) ==
    IF i > Len(ex) THEN [a |-> a, n |-> n]
    ELSE IF node = ex[i].Tail
         THEN LET r == FilterRemove(a, n, ex[i].Head)
              IN  AccessorsLoop(r.a, r.n, ex, i + 1, node)
         ELSE AccessorsLoop(a, n, ex, i + 1, node)

\* for _, filteringConnection := range filter.arcs of GetPredecessors
RECURSIVE PredecessorsLoop(_, _, _, _, _)
PredecessorsLoop(a, n, ex, i, node) ==
    IF i > Len(ex) THEN [a |-> a, n |-> n]
    ELSE IF node = ex[i].Head
         THEN LET r == FilterRemove(a, n, ex[i].Tail)
              IN  PredecessorsLoop(r.a, r.n, ex, i + 1, node)
         ELSE PredecessorsLoop(a, n, ex, i + 1, node)

\* filter.GetAccessors(node) on a reader that stores rd.acc and rd.pred for
\* node: [ret, backing], the slice returned and the array behind the slice
\* the reader handed out, as the call leaves it.
GetAccessorsOn(rd, ex, node) ==
    LET accessors == rd.acc
        r == AccessorsLoop(accessors, Len(accessors), ex, 1, node)
    IN  [ret |-> SubSeq(r.a, 1, r.n), backing |-> r.a]

\* GetPredecessors that fetches the reader's predecessors
GetPredecessorsOn_TruePredecessors(rd, ex, node) ==
    LET accessors == rd.pred
        r == PredecessorsLoop(accessors, Len(accessors), ex, 1, node)
    IN  [ret |-> SubSeq(r.a, 1, r.n), backing |-> rd.acc]

\* filter.GetPredecessors(node): it fetches the reader's GetAccessors(node)
GetPredecessorsOn(rd, ex, node) ==
    LET accessors == rd.acc
        r == PredecessorsLoop(accessors, Len(accessors), ex, 1, node)
    IN  [ret |-> SubSeq(r.a, 1, r.n), backing |-> r.a]

\* NewArcsFilter(g, arcs) on a reader g that stores, for the node queried,
\* the successors acc and the predecessors pred, and hands out either the
\* slice it stores (shared) or a fresh copy of it.
InitView ==
    /\ NewStore(1)
    /\ src = <<>>
    /\ arcs \in SeqUpTo(Connections, MaxExcl)
    /\ flt = NoIter
    /\ it = NoIt
    /\ \E node \in FilterIds, shared \in BOOLEAN :
       \E acc \in SeqUpTo(FilterIds, MaxAcc), pred \in SeqUpTo(FilterIds, MaxPred) :
           view = [NoView EXCEPT !.node = node, !.acc = acc, !.pred = pred,
                                 !.shared = shared]

\* The call op on the filter ended as r = [ret, backing]; got is what the
\* reader stored as successors when the call started.
ViewCall(op, r) ==
    /\ view' = [view EXCEPT !.op = op, !.got = view.acc, !.ret = r.ret,
                            !.acc = IF view.shared THEN r.backing ELSE view.acc]
    /\ UNCHANGED <<store, caller, probe, filter, it>>

ViewGetAccessors ==
    ViewCall("GetAccessors", GetAccessorsOn(view, arcs, view.node))

ViewGetPredecessors ==
    ViewCall("GetPredecessors", GetPredecessorsOn(view, arcs, view.node))

NextView ==
    \/ ViewGetAccessors
    \/ ViewGetPredecessors

SpecView == InitView /\ [][NextView]_vars

\* ------------------------------------------------ the iterators of the store
\* Capacities of the stores iterated: 1..MaxIterSize.
MaxIterSize == 2
\* Vertex ids of the stores iterated: 1..MaxIterId.
MaxIterId == 3

IterSizes == 1..MaxIterSize
IterIds == 1..MaxIterId

\* TypedConnection{Connection: Connection{Tail, Head}, Type}
TypedConnection(tail, head, type) == [Tail |-> tail, Head |-> head, Type |-> type]

\* What the body of the inner loop sends for the pair from < to whose slot
\* holds t, in the order of its sends.
Emit(kind, t, from, to) ==
    CASE kind = "ConnectionsIter" ->
             IF t # CT_NONE THEN <<Connection(from, to)>> ELSE <<>>
      [] kind = "EdgesIter" ->
             IF t = CT_UNDIRECTED THEN <<Connection(from, to)>> ELSE <<>>
      [] kind = "ArcsIter" ->
             (IF t = CT_DIRECTED THEN <<Connection(from, to)>> ELSE <<>>)
             \o (IF t = CT_DIRECTED_REVERSED THEN <<Connection(to, from)>> ELSE <<>>)
      [] kind = "TypedConnectionsIter" ->
             CASE t = CT_NONE -> <<>>
               [] t = CT_UNDIRECTED -> <<TypedConnection(from, to, CT_UNDIRECTED)>>
               [] t = CT_DIRECTED -> <<TypedConnection(from, to, CT_DIRECTED)>>
               [] t = CT_DIRECTED_REVERSED -> <<TypedConnection(to, from, CT_DIRECTED)>>

InitIter ==
    /\ \E sz \in IterSizes : NewStore(sz)
    /\ src = <<>>
    /\ arcs = <<>>
    /\ flt = NoIter
    /\ view = NoView
    /\ it = NoIt

\* ch := make(chan ...); go func() {...}(); return ch. The caller starts to
\* receive from ch and makes no call on the store while the iteration runs.
StartIter(kind) ==
    /\ it.pc = "idle"
    /\ it' = [NoIt EXCEPT !.kind = kind, !.pc = "outer", !.cpc = "recv"]
    /\ UNCHANGED <<store, caller, probe, filter, view>>

VertexesIter == StartIter("VertexesIter")
ConnectionsIter == StartIter("ConnectionsIter")
EdgesIter == StartIter("EdgesIter")
ArcsIter == StartIter("ArcsIter")
TypedConnectionsIter == StartIter("TypedConnectionsIter")

\* for from, _ := range gr.VertexIds: the next key, in the order the map
\* yields its keys (any). VertexesIter sends the key; the others enter the
\* inner loop.
OuterNext ==
    /\ it.pc = "outer"
    /\ \E from \in DOMAIN VertexIds \ it.froms :
           it' = IF it.kind = "VertexesIter"
                 THEN [it EXCEPT !.from = from, !.pend = <<from>>, !.pc = "send"]
                 ELSE [it EXCEPT !.from = from, !.tos = {}, !.pc = "inner"]
    /\ UNCHANGED <<store, caller, probe, filter, view>>

\* the outer range is over: close(ch)
OuterEnd ==
    /\ it.pc = "outer"
    /\ it.froms = DOMAIN VertexIds
    /\ it' = [it EXCEPT !.pc = "done"]
    /\ UNCHANGED <<store, caller, probe, filter, view>>

\* for to, _ := range gr.VertexIds { if from>=to { continue }; conn :=
\* gr.getConnectionId(from, to, false); ... gr.nodes[conn] ... }: one pass.
\* An index outside gr.nodes panics in the goroutine.
InnerNext ==
    /\ it.pc = "inner"
    /\ \E to \in DOMAIN VertexIds \ it.tos :
           IF it.from >= to
           THEN it' = [it EXCEPT !.tos = it.tos \cup {to}]
           ELSE LET r == getConnectionId(VertexIds, size, it.from, to, FALSE)
                IN  IF r.err # OK \/ ~InRange(nodes, r.conn)
                    THEN it' = [it EXCEPT !.pc = "failed"]
                    ELSE LET pend == Emit(it.kind, nodes[r.conn], it.from, to)
                         IN  it' = [it EXCEPT !.tos = it.tos \cup {to},
                                              !.pend = pend,
                                              !.pc = IF pend = <<>> THEN "inner"
                                                     ELSE "send"]
    /\ UNCHANGED <<store, caller, probe, filter, view>>

\* the inner range is over: on with the next key of the outer range
InnerEnd ==
    /\ it.pc = "inner"
    /\ it.tos = DOMAIN VertexIds
    /\ it' = [it EXCEPT !.froms = it.froms \cup {it.from}, !.pc = "outer"]
    /\ UNCHANGED <<store, caller, probe, filter, view>>

\* ch <- ...: the channel has no buffer, the send completes when the consumer
\* receives
IterSend ==
    /\ it.pc = "send"
    /\ it.cpc = "recv"
    /\ it' = [it EXCEPT !.out = Append(it.out, Head(it.pend)),
                        !.pend = Tail(it.pend),
                        !.froms = IF it.kind = "VertexesIter" /\ Len(it.pend) = 1
                                  THEN it.froms \cup {it.from} ELSE it.froms,
                        !.pc = IF Len(it.pend) > 1 THEN "send"
                               ELSE IF it.kind = "VertexesIter" THEN "outer"
                               ELSE "inner"]
    /\ UNCHANGED <<store, caller, probe, filter, view>>

\* the consumer ceases to receive before ch is closed
ConsumerStop ==
    /\ it.cpc = "recv"
    /\ it.pc \notin {"done", "failed"}
    /\ it' = [it EXCEPT !.cpc = "stopped"]
    /\ UNCHANGED <<store, caller, probe, filter, view>>

\* the consumer's range over ch ends when ch is closed
ConsumerDone ==
    /\ it.cpc = "recv"
    /\ it.pc = "done"
    /\ it' = [it EXCEPT !.cpc = "done"]
    /\ UNCHANGED <<store, caller, probe, filter, view>>

\* the steps of the producer goroutine
Producer == OuterNext \/ OuterEnd \/ InnerNext \/ InnerEnd \/ IterSend

\* no iteration has been started
NotIterating == it.pc = "idle"

\* The caller builds the store with any calls, then starts one iteration and
\* leaves the store alone.
NextIter ==
    \/ NotIterating /\ Idle /\ \E node \in IterIds : AddNode(node)
    \/ NotIterating /\ Idle /\ \E node1, node2 \in IterIds : AddEdge(node1, node2)
    \/ NotIterating /\ Idle /\ \E node1, node2 \in IterIds : RemoveEdge(node1, node2)
    \/ NotIterating /\ Idle /\ \E tail, head \in IterIds : AddArc(tail, head)
    \/ NotIterating /\ Idle /\ \E tail, head \in IterIds : RemoveArc(tail, head)
    \/ NotIterating /\ ~Idle /\ Drop
    \/ Idle /\ VertexesIter
    \/ Idle /\ ConnectionsIter
    \/ Idle /\ EdgesIter
    \/ Idle /\ ArcsIter
    \/ Idle /\ TypedConnectionsIter
    \/ OuterNext
    \/ OuterEnd
    \/ InnerNext
    \/ InnerEnd
    \/ IterSend
    \/ ConsumerStop
    \/ ConsumerDone

SpecIter == InitIter /\ [][NextIter]_vars

\* The goroutine runs whenever it can: a step of the producer that stays
\* possible is taken. Nothing makes the consumer receive.
SpecIterFair == SpecIter /\ WF_vars(Producer)

\* =================================================================== claims
\* the arguments of the call held are two different vertex ids
TwoNodes == last.a \in Ids /\ last.b \in Ids /\ last.a # last.b

\* how many of the two endpoints are not vertices of the store s
Missing(s, u, v) == Cardinality({u, v} \ DOMAIN s.VertexIds)

\* C1: the number of mapped vertices is at most size, and every internal index
\* stored in VertexIds is in [0, size).
C1_OrderWithinCapacity ==
    /\ Order(VertexIds) <= size
    /\ \A n \in DOMAIN VertexIds : VertexIds[n] \in 0..(size - 1)

\* C2: AddEdge(u,v) / AddArc(u,v), u # v, with more missing endpoints than free
\* indices fails with a capacity error and leaves the store as it was.
C2_CapacityFailureAtomic ==
    (/\ last.op \in {"AddEdge", "AddArc"}
     /\ TwoNodes
     /\ Missing(pre, last.a, last.b) > pre.size - Order(pre.VertexIds))
    => (last.res = ERR_CAPACITY /\ Snapshot = pre)

\* C3: RemoveEdge(u,v) without an edge u-v, and RemoveArc(tail,head) without an
\* arc tail->head, fail with a not-found error and leave the store as it was,
\* also when u or v is not a vertex.
C3_RemoveMissingAtomic ==
    (/\ TwoNodes
     /\ \/ last.op = "RemoveEdge" /\ ~CheckEdge(pre, last.a, last.b).val
        \/ last.op = "RemoveArc" /\ ~CheckArc(pre, last.a, last.b).val)
    => (last.res \in {ERR_NO_EDGE, ERR_NO_ARC, ERR_NO_NODE} /\ Snapshot = pre)

\* C4: after a successful AddArc(a,b), CheckEdgeType(a,b) reports CT_DIRECTED
\* and CheckEdgeType(b,a) reports CT_DIRECTED_REVERSED, whatever the order of
\* the ids a, b.
C4_EdgeTypeInCallerOrientation ==
    (last.op = "AddArc" /\ last.res = OK)
    => (/\ CheckEdgeType(Snapshot, last.a, last.b) = [err |-> OK, val |-> CT_DIRECTED]
        /\ CheckEdgeType(Snapshot, last.b, last.a)
               = [err |-> OK, val |-> CT_DIRECTED_REVERSED])

\* the connections of s without those equal to an excluded arc
Filtered(s, excluded) ==
    SelectSeq(s, LAMBDA c : \A i \in DOMAIN excluded : excluded[i] # c)

\* C5: once the consumer has drained filter.ConnectionsIter(), it has received
\* the connections the wrapped reader yields, without the excluded ones, and
\* the channel is closed.
C5_FilterDeliversNonExcluded ==
    (flt.cpc = "done") => (flt.out = Filtered(src, arcs) /\ flt.ch = "closed")

\* C6: edgesCnt is the number of CT_UNDIRECTED slots, arcsCnt the number of
\* CT_DIRECTED or CT_DIRECTED_REVERSED slots, their sum the number of slots
\* that are not CT_NONE, and ConnectionsCnt() = EdgesCnt() + ArcsCnt().
C6_CountsMatchSlots ==
    /\ EdgesCnt(Snapshot) = Cardinality({i \in DOMAIN nodes : nodes[i] = CT_UNDIRECTED})
    /\ ArcsCnt(Snapshot) = Cardinality({i \in DOMAIN nodes :
                                nodes[i] \in {CT_DIRECTED, CT_DIRECTED_REVERSED}})
    /\ EdgesCnt(Snapshot) + ArcsCnt(Snapshot)
           = Cardinality({i \in DOMAIN nodes : nodes[i] # CT_NONE})
    /\ ConnectionsCnt(Snapshot) = EdgesCnt(Snapshot) + ArcsCnt(Snapshot)

\* C6 witness: a successful RemoveArc has just brought the arc count down, in a
\* store whose vertex map has outgrown the capacity.
C6_Witness ==
    /\ last.op = "RemoveArc" /\ last.res = OK
    /\ pre.arcsCnt = 1 /\ arcsCnt = 0
    /\ Order(VertexIds) > size

\* C7: for the capacity size, the slot formula maps the pairs lo < hi < size
\* into the indices of the nodes array, no two pairs to the same index, and
\* every index of the array is the slot of some pair.
C7_SlotBijection ==
    LET Pairs == {p \in (0..(size - 1)) \X (0..(size - 1)) : p[1] < p[2]}
        Slot(p) == SlotFormula(p[1], p[2], size)
    IN  /\ \A p \in Pairs : Slot(p) \in DOMAIN nodes
        /\ \A p, q \in Pairs : p # q => Slot(p) # Slot(q)
        /\ \A i \in DOMAIN nodes : \E p \in Pairs : Slot(p) = i
        /\ probe # NoProbe => probe.conn \in DOMAIN nodes

\* C7 witness: the formula, called with the larger index first, has given the
\* last index of an array of capacity 5 or more.
C7_Witness ==
    /\ size >= 5
    /\ probe.id1 > probe.id2
    /\ probe.conn = NodesLen(size) - 1

\* C8: AddEdge(u,v) directly followed by RemoveEdge(u,v) (AddArc by RemoveArc):
\* the Remove succeeds, the counts are those before the Add, the slot of {u,v}
\* is CT_NONE and the array is as before the Add.
C8_RoundTrip ==
    (Len(addPre) = 1)
    => (/\ last.res = OK
        /\ EdgesCnt(Snapshot) = EdgesCnt(addPre[1])
        /\ ArcsCnt(Snapshot) = ArcsCnt(addPre[1])
        /\ CheckEdgeType(Snapshot, last.a, last.b) = [err |-> OK, val |-> CT_NONE]
        /\ nodes = addPre[1].nodes)

\* C8 witness: RemoveArc(tail,head) with tail > head right after the AddArc
\* that created both vertices.
C8_Witness ==
    /\ Len(addPre) = 1
    /\ last.op = "RemoveArc" /\ last.a > last.b
    /\ Missing(addPre[1], last.a, last.b) = 2

\* C9: when {u,v} carries a connection, AddEdge and AddArc on u, v (in either
\* order) fail with a duplicate-connection error and leave the store as it was.
C9_DuplicateAtomic ==
    (/\ last.op \in {"AddEdge", "AddArc"}
     /\ TwoNodes
     /\ CheckEdgeType(pre, last.a, last.b).err = OK
     /\ CheckEdgeType(pre, last.a, last.b).val # CT_NONE)
    => (last.res = ERR_DUPLICATE /\ Snapshot = pre)

\* C9 witness: an AddEdge refused on a pair that carries an arc head->tail.
C9_Witness ==
    /\ last.op = "AddEdge" /\ last.res = ERR_DUPLICATE
    /\ TwoNodes
    /\ CheckArc(pre, last.b, last.a).val
    /\ Snapshot = pre

\* C10: after a successful AddArc(tail,head), and until a RemoveArc(tail,head)
\* succeeds, CheckArc(tail,head) is true and CheckArc(head,tail) is false.
C10_ArcStaysUntilRemoved ==
    \A arc \in arcsAdded :
        /\ CheckArc(Snapshot, arc[1], arc[2]) = [err |-> OK, val |-> TRUE]
        /\ CheckArc(Snapshot, arc[2], arc[1]) = [err |-> OK, val |-> FALSE]

\* C11: after a successful AddEdge(u,v), CheckEdge(u,v) and CheckEdge(v,u) are
\* true, CheckArc(u,v) and CheckArc(v,u) are false, and CheckEdgeType(u,v) and
\* CheckEdgeType(v,u) both report CT_UNDIRECTED.
C11_EdgeSymmetric ==
    (last.op = "AddEdge" /\ last.res = OK)
    => (/\ CheckEdge(Snapshot, last.a, last.b) = [err |-> OK, val |-> TRUE]
        /\ CheckEdge(Snapshot, last.b, last.a) = [err |-> OK, val |-> TRUE]
        /\ CheckArc(Snapshot, last.a, last.b) = [err |-> OK, val |-> FALSE]
        /\ CheckArc(Snapshot, last.b, last.a) = [err |-> OK, val |-> FALSE]
        /\ CheckEdgeType(Snapshot, last.a, last.b) = [err |-> OK, val |-> CT_UNDIRECTED]
        /\ CheckEdgeType(Snapshot, last.b, last.a) = [err |-> OK, val |-> CT_UNDIRECTED])

\* C11 witness: AddEdge(u,v) with u > v has succeeded and created v, u being
\* the older vertex.
C11_Witness ==
    /\ last.op = "AddEdge" /\ last.res = OK
    /\ last.a > last.b
    /\ last.a \in DOMAIN pre.VertexIds
    /\ last.b \notin DOMAIN pre.VertexIds

\* the internal indices in use are pairwise distinct and are exactly
\* 0..Order()-1
IndicesDense(V) ==
    /\ \A n1, n2 \in DOMAIN V : n1 # n2 => V[n1] # V[n2]
    /\ {V[n] : n \in DOMAIN V} = 0..(Order(V) - 1)

\* C14: AddNode(id) fails with the already-exists error when id is a vertex and
\* with the capacity error when Order() = size, the store unchanged; otherwise
\* it maps id to the previous Order(). After any call the internal indices are
\* pairwise distinct and exactly 0..Order()-1, and no call changes the index
\* of a vertex.
C14_AddNodeAndIndices ==
    /\ (last.op = "AddNode") =>
           IF last.a \in DOMAIN pre.VertexIds
           THEN last.res = ERR_EXISTS /\ Snapshot = pre
           ELSE IF Order(pre.VertexIds) = pre.size
           THEN last.res = ERR_CAPACITY /\ Snapshot = pre
           ELSE /\ last.res = OK
                /\ DOMAIN VertexIds = DOMAIN pre.VertexIds \cup {last.a}
                /\ VertexIds[last.a] = Order(pre.VertexIds)
                /\ Snapshot = [pre EXCEPT !.VertexIds = VertexIds]
    /\ IndicesDense(VertexIds)
    /\ \A n \in DOMAIN pre.VertexIds :
           n \in DOMAIN VertexIds /\ VertexIds[n] = pre.VertexIds[n]

\* C14 witness: AddNode of a new id refused for lack of capacity, after
\* vertices were created by other calls.
C14_Witness ==
    /\ last.op = "AddNode" /\ last.res = ERR_CAPACITY
    /\ last.a \notin DOMAIN VertexIds
    /\ size >= 2

\* the slot of the pair {a,b} in the store s (both are vertices of s)
SlotOf(s, a, b) == ConnId(s.VertexIds[a], s.VertexIds[b], s.size)

\* C15 as claimed: a successful AddArc(tail,head) sets the slot to CT_DIRECTED
\* if tail's internal index is smaller than head's and to CT_DIRECTED_REVERSED
\* otherwise; RemoveArc succeeds exactly when the slot holds that state.
C15_DirectionByInternalIndex ==
    LET byIndex == IF VertexIds[last.a] < VertexIds[last.b]
                   THEN CT_DIRECTED ELSE CT_DIRECTED_REVERSED
    IN  /\ (last.op = "AddArc" /\ last.res = OK)
               => nodes[SlotOf(Snapshot, last.a, last.b)] = byIndex
        /\ (last.op = "RemoveArc" /\ last.res \in {OK, ERR_NO_ARC})
               => ((last.res = OK)
                      <=> (pre.nodes[SlotOf(Snapshot, last.a, last.b)] = byIndex))

\* C15 amended: the direction is encoded relative to the order of the vertex
\* ids: a successful AddArc(tail,head) sets the slot to CT_DIRECTED if
\* tail < head and to CT_DIRECTED_REVERSED otherwise, whatever the internal
\* indices; RemoveArc succeeds exactly when the slot holds that state, and
\* CheckArc(tail,head) is then true of the arc added.
C15_DirectionByVertexId ==
    LET byId == IF last.a < last.b THEN CT_DIRECTED ELSE CT_DIRECTED_REVERSED
    IN  /\ (last.op = "AddArc" /\ last.res = OK)
               => /\ nodes[SlotOf(Snapshot, last.a, last.b)] = byId
                  /\ CheckArc(Snapshot, last.a, last.b) = [err |-> OK, val |-> TRUE]
        /\ (last.op = "RemoveArc" /\ last.res \in {OK, ERR_NO_ARC})
               => ((last.res = OK)
                      <=> (pre.nodes[SlotOf(Snapshot, last.a, last.b)] = byId))

\* C15 witness: AddArc(tail,head) has succeeded with tail < head, head being
\* the vertex created first (its internal index is the smaller one).
C15_Witness ==
    /\ last.op = "AddArc" /\ last.res = OK
    /\ last.a < last.b
    /\ VertexIds[last.a] > VertexIds[last.b]

\* what the three connection queries answer for the pair x, y in the store s
Answers(s, x, y) ==
    <<CheckEdge(s, x, y), CheckEdge(s, y, x), CheckArc(s, x, y), CheckArc(s, y, x),
      CheckEdgeType(s, x, y), CheckEdgeType(s, y, x)>>

\* C20: a successful AddEdge, AddArc, RemoveEdge or RemoveArc on {u,v} leaves
\* the answers of CheckEdge, CheckArc and CheckEdgeType unchanged for every
\* other pair {x,y} of vertices.
C20_OtherPairsUntouched ==
    (last.op \in {"AddEdge", "AddArc", "RemoveEdge", "RemoveArc"} /\ last.res = OK)
    => \A x, y \in DOMAIN pre.VertexIds :
           (x # y /\ {x, y} # {last.a, last.b})
           => Answers(Snapshot, x, y) = Answers(pre, x, y)

\* the sequence s without the first occurrence of x, if there is one
RemoveFirst(s, x) ==
    IF \A i \in 1..Len(s) : s[i] # x THEN s
    ELSE LET k == CHOOSE i \in 1..Len(s) :
                      s[i] = x /\ \A j \in 1..(i - 1) : s[j] # x
         IN  SubSeq(s, 1, k - 1) \o SubSeq(s, k + 1, Len(s))

\* s after removing, for each x of xs in order, one occurrence of x if present
RECURSIVE RemoveEach(_, _)
RemoveEach(s, xs) ==
    IF xs = <<>> THEN s ELSE RemoveEach(RemoveFirst(s, Head(xs)), Tail(xs))

\* the Heads of the excluded arcs whose Tail is node, in list order
HeadsFrom(ex, node) ==
    LET sel == SelectSeq(ex, LAMBDA c : c.Tail = node)
    IN  [i \in 1..Len(sel) |-> sel[i].Head]

\* the Tails of the excluded arcs whose Head is node, in list order
TailsInto(ex, node) ==
    LET sel == SelectSeq(ex, LAMBDA c : c.Head = node)
    IN  [i \in 1..Len(sel) |-> sel[i].Tail]

C19_ReaderNotMutated ==
    (view.op # "none") => (view.acc = view.got)

\* no element occurs twice in the sequence s
NoDuplicates(s) == \A i, j \in 1..Len(s) : i # j => s[i] # s[j]

\* the arcs of the store: the pairs CheckArc reports
ArcsOf(s) ==
    {Connection(p[1], p[2]) :
        p \in {q \in (DOMAIN s.VertexIds) \X (DOMAIN s.VertexIds) :
                  q[1] # q[2] /\ CheckArc(s, q[1], q[2]).val}}

\* C13: ArcsIter() on an unmodified store runs to its end, and once drained it
\* has yielded each arc (t,h) with CheckArc(t,h) exactly once, as
\* Connection{t, h}, ArcsCnt() elements in all.
C13_ArcsIterYieldsArcs ==
    (it.kind = "ArcsIter")
    => /\ it.pc # "failed"
       /\ (it.cpc = "done")
              => /\ {it.out[i] : i \in 1..Len(it.out)} = ArcsOf(Snapshot)
                 /\ NoDuplicates(it.out)
                 /\ Len(it.out) = ArcsCnt(Snapshot)

\* C17: with the store left alone, no lookup of a producer fails or indexes
\* outside the array, and an iterator delivers no element twice and no more
\* elements than there are vertex pairs (vertices for VertexesIter).
C17_IterationCompletes ==
    /\ it.pc # "failed"
    /\ NoDuplicates(it.out)
    /\ Len(it.out) <= IF it.kind = "VertexesIter" THEN Order(VertexIds)
                      ELSE (Order(VertexIds) * (Order(VertexIds) - 1)) \div 2

\* C18: once the consumer has ceased to receive, the producer still comes to
\* its end: it is not left blocked on a send.
C18_StoppedConsumerCancels ==
    (it.cpc = "stopped") ~> (it.pc \in {"done", "failed"})

====
